---- MODULE Spec2Model ----
(***************************************************************************)
(* PhoneTool license server: license validation and activation, the        *)
(* activation-token codec and the admin operations.                        *)
(*                                                                         *)
(* The repository holds two realizations of the same server:               *)
(*   "orm"  - src/app/ (SQLAlchemy session per request, app/routes/*.py)   *)
(*   "rest" - src/main.py (Supabase REST calls, one HTTP call per access)  *)
(* A deployment runs one of them; impl is fixed by Init.                   *)
(*                                                                         *)
(* Strings are sequences of byte values (0..255).  Time is counted in      *)
(* days.  Every store access is one atomic step of a request; requests of  *)
(* different workers interleave between store accesses.                    *)
(***************************************************************************)
EXTENDS Integers, Sequences, FiniteSets, TLC

----------------------------------------------------------------------------
(* Bounds of the model *)

MaxActivations == 2   \* rows the activations table holds at most
MaxNow == 31          \* last day the clock reaches
DigestLen == 2        \* bytes of a digest (32 for SHA-256)
MaxQuota == 1         \* largest max_activations an admin passes

----------------------------------------------------------------------------
(* Bytes and strings *)

TILDE == 126          \* b"~"
PIPE == 124           \* "|"
EQUALS == 61          \* "="

None == <<>>               \* an absent Optional value; a present one is <<v>>
unknown == <<117, 110, 107, 110, 111, 119, 110>>       \* "unknown"

RECURSIVE str(_)
\* str(n) of a non-negative int: its decimal digits
str(n) == IF n < 10 THEN <<48 + n>> ELSE str(n \div 10) \o <<48 + (n % 10)>>

\* int(datetime.utcnow().timestamp()) with the clock in days
timestamp(t) == t * 86400

\* i-th digit (from 0) of n written in base b
Digit(n, b, i) == (n \div (b ^ i)) % b

RECURSIVE WeightedSum(_, _)
WeightedSum(bytes, i) ==
    IF i > Len(bytes) THEN 0 ELSE i * bytes[i] + WeightedSum(bytes, i + 1)

\* hmac.new(secret, msg, sha256).digest(): a keyed function from byte strings
\* to DigestLen-byte strings.  SHA-256 itself is out of reach; what verify
\* depends on is kept: the result is determined by (secret, msg), has a fixed
\* length, and any byte value - the separator included - can occur in it.
DigestBytes == <<65, TILDE, 66, 0>>
hmac_digest(secret, msg) ==
    LET h == secret + WeightedSum(msg, 1)
    IN  [j \in 1..DigestLen |->
            DigestBytes[Digit(h, Len(DigestBytes), j - 1) + 1]]

\* a faulty comparison: one that stops at the end of the shorter operand
compare_prefix(a, b) ==
    \A i \in 1..(IF Len(a) < Len(b) THEN Len(a) ELSE Len(b)) : a[i] = b[i]

\* hmac.compare_digest(a, b)
compare_digest(a, b) == a = b

----------------------------------------------------------------------------
(* base64.urlsafe_b64encode / urlsafe_b64decode (CPython binascii) *)

\* the url-safe alphabet: value 0..63 -> character
b2a(v) ==
    IF v < 26 THEN 65 + v
    ELSE IF v < 52 THEN 97 + (v - 26)
    ELSE IF v < 62 THEN 48 + (v - 52)
    ELSE IF v = 62 THEN 45 ELSE 95

\* character -> value 0..63, or 64 for a character outside the alphabet.
\* urlsafe_b64decode translates "-" to "+" and "_" to "/" and then decodes
\* with the standard table, so all four are accepted.
a2b(c) ==
    IF c >= 65 /\ c <= 90 THEN c - 65
    ELSE IF c >= 97 /\ c <= 122 THEN 26 + (c - 97)
    ELSE IF c >= 48 /\ c <= 57 THEN 52 + (c - 48)
    ELSE IF c = 45 \/ c = 43 THEN 62
    ELSE IF c = 95 \/ c = 47 THEN 63
    ELSE 64

RECURSIVE urlsafe_b64encode(_)
urlsafe_b64encode(bytes) ==
    LET n == Len(bytes) IN
    IF n = 0 THEN <<>>
    ELSE IF n = 1 THEN
        << b2a(bytes[1] \div 4), b2a((bytes[1] % 4) * 16), EQUALS, EQUALS >>
    ELSE IF n = 2 THEN
        << b2a(bytes[1] \div 4),
           b2a((bytes[1] % 4) * 16 + bytes[2] \div 16),
           b2a((bytes[2] % 16) * 4), EQUALS >>
    ELSE
        << b2a(bytes[1] \div 4),
           b2a((bytes[1] % 4) * 16 + bytes[2] \div 16),
           b2a((bytes[2] % 16) * 4 + bytes[3] \div 64),
           b2a(bytes[3] % 64) >>
        \o urlsafe_b64encode(SubSeq(bytes, 4, n))

RECURSIVE a2b_base64(_, _, _, _, _, _)
\* binascii.a2b_base64 in its non-strict mode: characters outside the
\* alphabet are skipped, a complete pad sequence ends the input, and data
\* that stops inside a quad raises binascii.Error (ok = FALSE).
a2b_base64(s, i, quad_pos, leftchar, pads, out) ==
    IF i > Len(s) THEN [ok |-> quad_pos = 0, bytes |-> out]
    ELSE IF s[i] = EQUALS THEN
        IF quad_pos >= 2 /\ quad_pos + pads + 1 >= 4
        THEN [ok |-> TRUE, bytes |-> out]
        ELSE a2b_base64(s, i + 1, quad_pos, leftchar,
                        IF quad_pos >= 2 THEN pads + 1 ELSE pads, out)
    ELSE IF a2b(s[i]) = 64 THEN a2b_base64(s, i + 1, quad_pos, leftchar, pads, out)
    ELSE LET v == a2b(s[i]) IN
        CASE quad_pos = 0 -> a2b_base64(s, i + 1, 1, v, 0, out)
          [] quad_pos = 1 ->
                a2b_base64(s, i + 1, 2, v % 16, 0,
                           Append(out, leftchar * 4 + v \div 16))
          [] quad_pos = 2 ->
                a2b_base64(s, i + 1, 3, v % 4, 0,
                           Append(out, leftchar * 16 + v \div 4))
          [] quad_pos = 3 ->
                a2b_base64(s, i + 1, 0, 0, 0, Append(out, leftchar * 64 + v))

urlsafe_b64decode(s) == a2b_base64(s, 1, 0, 0, 0, <<>>)

----------------------------------------------------------------------------
(* app/utils/crypto.py *)

\* position of the last "~" of raw, 0 when there is none
RECURSIVE rfind(_, _)
rfind(raw, i) ==
    IF i = 0 THEN 0 ELSE IF raw[i] = TILDE THEN i ELSE rfind(raw, i - 1)

\* the payload string f"{license_key}|{device_id or ''}|{int(timestamp)}"
payload_of(license_key, device_id, ts) ==
    license_key \o <<PIPE>> \o device_id \o <<PIPE>> \o str(ts)

\* the bytes sign_activation encodes: payload + b"~" + sig
raw_of(secret, license_key, device_id, ts) ==
    LET payload == payload_of(license_key, device_id, ts)
    IN  payload \o <<TILDE>> \o hmac_digest(secret, payload)

sign_activation(secret, license_key, device_id, ts) ==
    urlsafe_b64encode(raw_of(secret, license_key, device_id, ts))

\* the body of the try block of verify_activation_token: what it returns
\* ("True", "False") or the exception it raises
verify_try(secret, token) ==
    LET dec == urlsafe_b64decode(token) IN
    IF ~dec.ok THEN "binascii.Error"
    ELSE LET raw == dec.bytes
             p == rfind(raw, Len(raw))
         IN  \* payload, sig = raw.rsplit(b"~", 1)
             IF p = 0 THEN "ValueError"
             ELSE LET payload == SubSeq(raw, 1, p - 1)
                      sig == SubSeq(raw, p + 1, Len(raw))
                      expected == hmac_digest(secret, payload)
                  IN  IF compare_digest(expected, sig) THEN "True" ELSE "False"

\* a faulty handler: one that catches binascii.Error only, so that the
\* ValueError of the unpacking reaches the caller
verify_uncaught(secret, token) ==
    LET r == verify_try(secret, token) IN
    IF r \in {"True", "False"}
    THEN [raised |-> "", valid |-> (r = "True")]
    ELSE IF r = "binascii.Error"
    THEN [raised |-> "", valid |-> FALSE]
    ELSE [raised |-> r, valid |-> FALSE]

\* try: ... except Exception: return False
verify_activation_token(secret, token) ==
    LET r == verify_try(secret, token) IN
    IF r \in {"True", "False"}
    THEN [raised |-> "", valid |-> (r = "True")]
    ELSE [raised |-> "", valid |-> FALSE]

----------------------------------------------------------------------------
(* Inputs *)

Workers == {1, 2}                          \* requests in flight at a time
Impls == {"orm", "rest"}
ADMIN_TOKEN == "admin-token"
ACTIVATION_SECRET == 0                     \* the secret of this deployment
AdminTokenInputs == {ADMIN_TOKEN, "wrong-token", "absent"}
DurationPlans == {"lifetime", "1month", "3months", "6months", "weekly"}
MaxActivationInputs == 0..MaxQuota
DeviceIds == {<<>>, <<65>>, <<66>>}        \* absent (None or ""), "A", "B"
Secrets == {0, 1}                          \* values of ACTIVATION_SECRET

\* the keys generate_license_key() draws, each at most once: "K1"
KeyPool == {<<75, 49>>}
\* license_key of a request: a key of the pool (of a license or of none
\* yet), or none at all
LicenseKeyInputs == KeyPool \cup {<<>>}

VARIABLES
    impl,           \* which realization is deployed
    secret,         \* ACTIVATION_SECRET, read once at startup
    aware,          \* the store hands expires_at back with its UTC offset
    now,            \* datetime.utcnow(), in days
    licenses,       \* table licenses: sequence of rows, id = index
    activations,    \* table activations: sequence of rows, id = index
    pc,             \* per worker: where its activate request stands
    req,            \* per worker: the request body
    lic,            \* per worker: the license row it read (None or <<row>>)
    existing,       \* per worker: id of the activation row it found, 0 if none
    resp,           \* per worker: the response it returned (None or <<r>>)
    tok,            \* the token a client holds and what verifying it gave
    storeUp,        \* the store answers (FALSE: its calls fail or time out)
    adminResp,      \* response of the last admin call
    listing,        \* the list_licenses call in progress: the licenses it
                    \* read and the entries made so far (None: no call)
    silent          \* the store that does not answer sends nothing at all,
                    \* no error either (FALSE: its calls end with an error)

vars == << impl, secret, aware, now, licenses, activations, pc, req, lic, existing,
           resp, tok, storeUp, adminResp, listing, silent >>

store == << licenses, activations >>
locals == << req, lic, existing >>
config == << impl, secret, aware >>
env == << now, storeUp >>

----------------------------------------------------------------------------
(* Store queries *)

\* db.query(License).filter(License.license_key == key).first()
\* supabase_get_license_row(key)
LicenseByKey(key) ==
    LET ids == {i \in 1..Len(licenses) : licenses[i].key = key}
    IN  IF ids = {} THEN None ELSE <<licenses[CHOOSE i \in ids : TRUE]>>

\* a faulty query: one without the filter on license_id
ActivationsOf_all(license_id) == 1..Len(activations)

\* ids of the activation rows of a license
ActivationsOf(license_id) ==
    {i \in 1..Len(activations) : activations[i].license_id = license_id}

\* ids of the activation rows of a license for a device
ActivationsFor(license_id, device_id) ==
    {i \in ActivationsOf(license_id) : activations[i].device_id = device_id}

\* lic.expires_at and lic.expires_at < datetime.utcnow()
Expired(row, t) == row.expires_at # None /\ row.expires_at[1] < t

\* max_act > 0 and act_count >= max_act, with max_act = lic.max_activations or 0
LimitReached(row, act_count) ==
    row.max_activations > 0 /\ act_count >= row.max_activations

----------------------------------------------------------------------------
(* Responses *)

Response(status, valid, message, token) ==
    [status |-> status, valid |-> valid, message |-> message,
     activation_token |-> token]

NotFound == Response(200, FALSE, "License not found", None)
Disabled == Response(200, FALSE, "License disabled", None)
ExpiredResp == Response(200, FALSE, "License expired", None)
LimitResp == Response(200, FALSE, "Activation limit reached", None)
KeyRequired == Response(400, FALSE, "license_key required", None)
StoreError == Response(500, FALSE, "store error", None)
ServerError == Response(500, FALSE, "Internal Server Error", None)

\* {"valid": True, "message": m, "activation_token": sign_activation(...)}
Granted(message, key, device_id, t) ==
    Response(200, TRUE, message,
             <<sign_activation(secret, key, device_id, timestamp(t))>>)

\* the request of worker w ends with response r
Finish(w, r) ==
    /\ pc' = [pc EXCEPT ![w] = "done"]
    /\ resp' = [resp EXCEPT ![w] = <<r>>]

\* the request of worker w goes on at step s
Goto(w, s) ==
    /\ pc' = [pc EXCEPT ![w] = s]
    /\ UNCHANGED resp

\* what a client knows of the token it holds: the payload sign_activation
\* signed for it (None when it never was signed), the bytes it is the
\* encoding of (None when of none), how it came about, and the results of
\* verifying it (None before)
Token(payload, raw, token, origin) ==
    [payload |-> payload, raw |-> raw, token |-> token, origin |-> origin,
     result |-> None, http |-> None]
NoToken == Token(None, None, <<>>, "none")

----------------------------------------------------------------------------
Init ==
    /\ impl \in Impls
    /\ secret = ACTIVATION_SECRET
    /\ aware \in BOOLEAN
    /\ now = 0
    /\ licenses = <<>>
    /\ activations = <<>>
    /\ pc = [w \in Workers |-> "idle"]
    /\ req = [w \in Workers |-> [license_key |-> <<>>, device_id |-> <<>>]]
    /\ lic = [w \in Workers |-> None]
    /\ existing = [w \in Workers |-> 0]
    /\ resp = [w \in Workers |-> None]
    /\ adminResp = None
    /\ listing = None
    /\ silent = FALSE
    /\ tok = NoToken
    /\ storeUp = TRUE

\* a response waits to be delivered
Pending == adminResp # None \/ \E w \in Workers : pc[w] = "done"

\* Every response produced so far has been delivered.  Delivery touches
\* nothing but the caller's own variables, so it is taken before the next
\* step of the server: every interleaving of the store accesses remains.
Delivered == ~Pending

\* time passes: the clock moves on to the instant some license expires at
\* (where it is not yet expired) or to the day after (where it is)
Tick ==
    /\ Delivered
    /\ \E i \in 1..Len(licenses), d \in {0, 1} :
          /\ licenses[i].expires_at # None
          /\ now' = licenses[i].expires_at[1] + d
          /\ now' > now
          /\ now' <= MaxNow
    /\ UNCHANGED << config, tok, listing, silent, storeUp, store, pc, locals, resp, adminResp >>

\* requests between their first store access and their response
InFlight == {w \in Workers : pc[w] \notin {"idle", "done"}}

\* the device of this request has a row under the license of this key (its
\* request will not need another)
Activated(key, device_id) ==
    /\ LicenseByKey(key) # None
    /\ ActivationsFor(LicenseByKey(key)[1].id, device_id) # {}

\* worker w takes the next request: the workers are interchangeable, so the
\* first idle one does; a request is taken while the table has room for the
\* row of every request in flight, and on a full table one at a time
Admit(w, key, device_id) ==
    /\ Delivered
    /\ pc[w] = "idle"
    /\ \A v \in Workers : pc[v] = "idle" => ~(v < w)
    /\ \/ Len(activations) + Cardinality(InFlight) < MaxActivations
       \/ Activated(key, device_id) /\ InFlight = {}

----------------------------------------------------------------------------
(* POST /license/activate, app/routes/licenses.py ("orm") *)

\* a faulty screening: one that looks at the expiry before the active flag
Screen_expiry_first(row, t, comparable, swallowed) ==
    IF row = None THEN <<NotFound>>
    ELSE IF row[1].expires_at # None /\ ~comparable /\ ~swallowed
    THEN <<ServerError>>
    ELSE IF comparable /\ Expired(row[1], t) THEN <<ExpiredResp>>
    ELSE IF ~row[1].active THEN <<Disabled>>
    ELSE None

\* The checks on the license row read: not found, disabled, expired.
\* expires_at is a DateTime(timezone=True) column (models.py line 22), an
\* ISO string over REST.  A store that keeps the offset (PostgreSQL's
\* timestamp with time zone) hands back an aware datetime, a string ending
\* in "+00:00", and comparing that with the naive utcnow() raises TypeError
\* (comparable = FALSE); a store that keeps none hands back what was
\* written.  licenses.py lets the exception out, a 500; main.py catches it
\* and goes on (swallowed).
Screen(row, t, comparable, swallowed) ==
    IF row = None THEN <<NotFound>>
    ELSE IF ~row[1].active THEN <<Disabled>>
    ELSE IF row[1].expires_at # None /\ ~comparable
    THEN (IF swallowed THEN None ELSE <<ServerError>>)
    ELSE IF Expired(row[1], t) THEN <<ExpiredResp>>
    ELSE None

\* a request arrives; lines 32-48: read the license row and screen it
activate_license_lookup(w, key, device_id) ==
    /\ impl = "orm"
    /\ Admit(w, key, device_id)
    /\ req' = [req EXCEPT ![w] = [license_key |-> key, device_id |-> device_id]]
    /\ LET row == LicenseByKey(key)
            verdict == Screen(row, now, ~aware, FALSE)
        IN  IF key = <<>> THEN
                /\ Finish(w, KeyRequired)
                /\ UNCHANGED lic
            ELSE IF ~storeUp THEN
                /\ Finish(w, StoreError)
                /\ UNCHANGED lic
            ELSE IF verdict # None THEN
                /\ Finish(w, verdict[1])
                /\ UNCHANGED lic
            ELSE
                /\ lic' = [lic EXCEPT ![w] = row]
                /\ Goto(w, IF device_id # <<>> THEN "find" ELSE "count")
    /\ UNCHANGED << config, tok, listing, silent, env, store, existing, adminResp >>

\* a faulty step: one that does not look for the device's row and goes on
\* to the quota
activate_license_find_skipped(w) ==
    /\ impl = "orm"
    /\ Delivered
    /\ pc[w] = "find"
    /\ IF ~storeUp THEN Finish(w, StoreError) ELSE Goto(w, "count")
    /\ UNCHANGED << config, tok, listing, silent, env, store, locals, adminResp >>

\* lines 50-53: existing activation of this device (device_id given)
activate_license_find(w) ==
    /\ impl = "orm"
    /\ Delivered
    /\ pc[w] = "find"
    /\ LET found == ActivationsFor(lic[w][1].id, req[w].device_id) IN
       IF ~storeUp THEN
           /\ Finish(w, StoreError)
           /\ UNCHANGED existing
       ELSE IF found # {} THEN
           \* .first(): some row that matches
           /\ \E e \in found : existing' = [existing EXCEPT ![w] = e]
           /\ Goto(w, "touch")
       ELSE
           /\ UNCHANGED existing
           /\ Goto(w, "count")
    /\ UNCHANGED << config, tok, listing, silent, env, store, req, lic, adminResp >>

\* lines 55-60: existing.last_seen = utcnow(); commit; sign; return OK
activate_license_touch(w) ==
    /\ impl = "orm"
    /\ Delivered
    /\ pc[w] = "touch"
    /\ IF ~storeUp THEN
           /\ Finish(w, StoreError)
           /\ UNCHANGED activations
       ELSE
           /\ activations' =
                  [activations EXCEPT ![existing[w]].last_seen = now]
           /\ Finish(w, Granted("OK", lic[w][1].key, req[w].device_id, now))
    /\ UNCHANGED << config, tok, listing, silent, env, licenses, locals, adminResp >>

\* a faulty step: one that writes the row of the device first and rejects
\* afterwards, leaving the row behind
activate_license_count_after(w) ==
    /\ impl = "orm"
    /\ Delivered
    /\ pc[w] = "count"
    /\ LET act_count == Cardinality(ActivationsOf(lic[w][1].id)) IN
       IF ~storeUp THEN
           /\ Finish(w, StoreError)
           /\ UNCHANGED activations
       ELSE IF LimitReached(lic[w][1], act_count) THEN
           /\ activations' = Append(activations,
                  [license_id |-> lic[w][1].id,
                   device_id |-> req[w].device_id,
                   last_seen |-> now])
           /\ Finish(w, LimitResp)
       ELSE
           /\ Goto(w, "insert")
           /\ UNCHANGED activations
    /\ UNCHANGED << config, tok, listing, silent, env, licenses, locals, adminResp >>

\* lines 62-66: count the license's activations and enforce max_activations
activate_license_count(w) ==
    /\ impl = "orm"
    /\ Delivered
    /\ pc[w] = "count"
    /\ LET act_count == Cardinality(ActivationsOf(lic[w][1].id)) IN
       IF ~storeUp THEN Finish(w, StoreError)
       ELSE IF LimitReached(lic[w][1], act_count) THEN Finish(w, LimitResp)
       ELSE Goto(w, "insert")
    /\ UNCHANGED << config, tok, listing, silent, env, store, locals, adminResp >>

\* the row an activation inserts: device_id or "unknown", last_seen = utcnow()
NewActivation(license_id, device_id, t) ==
    [license_id |-> license_id,
     device_id |-> IF device_id # <<>> THEN device_id ELSE unknown,
     last_seen |-> t]

\* lines 68-79: insert the activation row; commit; sign; return Activated
activate_license_insert(w) ==
    /\ impl = "orm"
    /\ Delivered
    /\ pc[w] = "insert"
    /\ IF ~storeUp THEN
           /\ Finish(w, StoreError)
           /\ UNCHANGED activations
       ELSE
           /\ activations' = Append(activations,
                  NewActivation(lic[w][1].id, req[w].device_id, now))
           /\ Finish(w, Granted("Activated", lic[w][1].key, req[w].device_id, now))
    /\ UNCHANGED << config, tok, listing, silent, env, licenses, locals, adminResp >>

----------------------------------------------------------------------------
(* POST /api/check, main.py ("rest") *)

\* lines 136-153: supabase_get_license_row and the screening; what parsing
\* expires_at or comparing it with utcnow() raises, the except clause drops
api_check_lookup(w, key, device_id) ==
    /\ impl = "rest"
    /\ Admit(w, key, device_id)
    /\ req' = [req EXCEPT ![w] = [license_key |-> key, device_id |-> device_id]]
    /\ LET row == LicenseByKey(key)
            verdict == Screen(row, now, ~aware, TRUE)
        IN  IF ~storeUp THEN
                /\ Finish(w, StoreError)
                /\ UNCHANGED lic
            ELSE IF verdict # None THEN
                /\ Finish(w, verdict[1])
                /\ UNCHANGED lic
            ELSE
                /\ lic' = [lic EXCEPT ![w] = row]
                /\ Goto(w, "fetch")
    /\ UNCHANGED << config, tok, listing, silent, env, store, existing, adminResp >>

\* lines 155-181: supabase_get_activations_for_license, the search for the
\* device's row and the max_activations check on the fetched list
api_check_fetch(w) ==
    /\ impl = "rest"
    /\ Delivered
    /\ pc[w] = "fetch"
    /\ LET fetched == ActivationsOf(lic[w][1].id)
           found == IF req[w].device_id # <<>>
                    THEN ActivationsFor(lic[w][1].id, req[w].device_id)
                    ELSE {}
       IN  IF ~storeUp THEN
               /\ Finish(w, StoreError)
               /\ UNCHANGED existing
           ELSE IF found # {} THEN
               \* the first row of the fetched list that matches
               /\ existing' = [existing EXCEPT
                      ![w] = CHOOSE e \in found : \A f \in found : e <= f]
               /\ Goto(w, "touch")
           ELSE IF LimitReached(lic[w][1], Cardinality(fetched)) THEN
               /\ Finish(w, LimitResp)
               /\ UNCHANGED existing
           ELSE
               /\ UNCHANGED existing
               /\ Goto(w, "insert")
    /\ UNCHANGED << config, tok, listing, silent, env, store, req, lic, adminResp >>

\* lines 168-176: supabase_update_activation_last_seen, sign, return OK.
\* A store that fails answers with an error status, which gives a result
\* of False that is not looked at, or does not answer and requests.patch
\* raises (a 500).
api_check_touch(w) ==
    /\ impl = "rest"
    /\ Delivered
    /\ pc[w] = "touch"
    /\ \E raised \in BOOLEAN :
          IF storeUp THEN
              /\ activations' =
                     [activations EXCEPT ![existing[w]].last_seen = now]
              /\ Finish(w, Granted("OK", lic[w][1].key, req[w].device_id, now))
          ELSE IF raised THEN
              /\ Finish(w, StoreError)
              /\ UNCHANGED activations
          ELSE
              /\ UNCHANGED activations
              /\ Finish(w, Granted("OK", lic[w][1].key, req[w].device_id, now))
    /\ UNCHANGED << config, tok, listing, silent, env, licenses, locals, adminResp >>

\* lines 183-191: supabase_create_activation_row, sign, return Activated
api_check_insert(w) ==
    /\ impl = "rest"
    /\ Delivered
    /\ pc[w] = "insert"
    /\ IF ~storeUp THEN
           /\ Finish(w, StoreError)
           /\ UNCHANGED activations
       ELSE
           /\ activations' = Append(activations,
                  NewActivation(lic[w][1].id, req[w].device_id, now))
           /\ Finish(w, Granted("Activated", lic[w][1].key, req[w].device_id, now))
    /\ UNCHANGED << config, tok, listing, silent, env, licenses, locals, adminResp >>

\* the response has been delivered; the worker takes the next request
Return(w) ==
    /\ pc[w] = "done"
    /\ pc' = [pc EXCEPT ![w] = "idle"]
    /\ req' = [req EXCEPT ![w] = [license_key |-> <<>>, device_id |-> <<>>]]
    /\ lic' = [lic EXCEPT ![w] = None]
    /\ existing' = [existing EXCEPT ![w] = 0]
    /\ resp' = [resp EXCEPT ![w] = None]
    /\ UNCHANGED << config, tok, listing, silent, env, store, adminResp >>

----------------------------------------------------------------------------
(* Admin operations *)

DAYS_1MONTH == 30
DAYS_3MONTHS == 90
DAYS_6MONTHS == 180

\* an admin call and its response: the operation, its argument (the
\* duration_plan of a create, the license_key of a kill), the HTTP status
AdminResponse(op, arg, status, detail) ==
    <<[op |-> op, arg |-> arg, status |-> status, detail |-> detail]>>

\* a faulty check: one that passes every token that is sent
verify_admin_present(token) == token # "absent"

\* verify_admin(token): anything but the configured token is a 401
verify_admin(token) == token = ADMIN_TOKEN

\* the expiry a duration plan gives a license created at t (None: no expiry)
expires_at_of(duration_plan, t) ==
    IF duration_plan = "1month" THEN <<t + DAYS_1MONTH>>
    ELSE IF duration_plan = "3months" THEN <<t + DAYS_3MONTHS>>
    ELSE IF duration_plan = "6months" THEN <<t + DAYS_6MONTHS>>
    ELSE None

\* generate_license_key(): the keys not drawn yet; licenses are created
\* while there are any
FreshKeys == KeyPool \ {licenses[i].key : i \in 1..Len(licenses)}

\* License(license_key=key, owner=..., plan=..., expires_at=..., ...)
NewLicense(id, key, owner, plan, expires_at, max_activations) ==
    [id |-> id, key |-> key, owner |-> owner,
     plan |-> plan, expires_at |-> expires_at,
     max_activations |-> max_activations, active |-> TRUE]

\* the duration plans app/routes/admin.py accepts
KnownPlan(duration_plan) ==
    duration_plan \in {"1month", "3months", "6months", "lifetime"}

\* POST /admin/create_license, app/routes/admin.py: an unknown duration_plan
\* is a 400
create_license(token, duration_plan, max_activations) ==
    /\ impl = "orm"
    /\ Delivered
    /\ FreshKeys # {}
    /\ IF ~verify_admin(token) THEN
           /\ adminResp' = AdminResponse("create", duration_plan, 401, "Unauthorized")
           /\ UNCHANGED licenses
       ELSE IF ~KnownPlan(duration_plan) THEN
           /\ adminResp' = AdminResponse("create", duration_plan, 400,
                                         "Unknown duration_plan")
           /\ UNCHANGED licenses
       ELSE IF ~storeUp THEN
           /\ adminResp' = AdminResponse("create", duration_plan, 500, "store error")
           /\ UNCHANGED licenses
       ELSE \E key \in FreshKeys :
           /\ licenses' = Append(licenses,
                  NewLicense(Len(licenses) + 1, key, "owner", duration_plan,
                             expires_at_of(duration_plan, now), max_activations))
           /\ adminResp' = AdminResponse("create", duration_plan, 200, "created")
    /\ UNCHANGED << config, tok, listing, silent, env, activations, pc, locals, resp >>

\* POST /admin/create_license, main.py: an unknown duration_plan gives a
\* license without expiry ("unknown -> no expiry"); plan is its own
\* parameter, left at its default here
admin_create_license(token, duration_plan, max_activations) ==
    /\ impl = "rest"
    /\ Delivered
    /\ FreshKeys # {}
    /\ IF ~verify_admin(token) THEN
           /\ adminResp' = AdminResponse("create", duration_plan, 401, "Unauthorized")
           /\ UNCHANGED licenses
       ELSE IF ~storeUp THEN
           /\ adminResp' = AdminResponse("create", duration_plan, 500,
                                         "Supabase create failed")
           /\ UNCHANGED licenses
       ELSE \E key \in FreshKeys :
           /\ licenses' = Append(licenses,
                  NewLicense(Len(licenses) + 1, key, "owner", "lifetime",
                             expires_at_of(duration_plan, now), max_activations))
           /\ adminResp' = AdminResponse("create", duration_plan, 200, "created")
    /\ UNCHANGED << config, tok, listing, silent, env, activations, pc, locals, resp >>

\* a revocation that flips the flag: a second one makes the license active
Disable_toggled(key) ==
    [i \in 1..Len(licenses) |->
        IF licenses[i].key = key
        THEN [licenses[i] EXCEPT !.active = ~licenses[i].active]
        ELSE licenses[i]]

\* the licenses table with the row of this key, if any, set inactive
Disable(key) ==
    [i \in 1..Len(licenses) |->
        IF licenses[i].key = key
        THEN [licenses[i] EXCEPT !.active = FALSE]
        ELSE licenses[i]]

\* POST /admin/kill_license, app/routes/admin.py
kill_license(token, key) ==
    /\ impl = "orm"
    /\ Delivered
    /\ IF ~verify_admin(token) THEN
           /\ adminResp' = AdminResponse("kill", key, 401, "Unauthorized")
           /\ UNCHANGED licenses
       ELSE IF ~storeUp THEN
           /\ adminResp' = AdminResponse("kill", key, 500, "store error")
           /\ UNCHANGED licenses
       ELSE IF LicenseByKey(key) = None THEN
           /\ adminResp' = AdminResponse("kill", key, 404, "License not found")
           /\ UNCHANGED licenses
       ELSE
           /\ licenses' = Disable(key)
           /\ adminResp' = AdminResponse("kill", key, 200, "ok")
    /\ UNCHANGED << config, tok, listing, silent, env, activations, pc, locals, resp >>

\* the HTTP status of the PATCH of supabase_disable_license_row: when the
\* store fails, 500 or none at all (0: requests.patch raises); 204 when it
\* ran the update; for an update that matched no row, 204 (PostgREST since
\* 10) or 404 (PostgREST before)
PatchStatuses(key) ==
    IF ~storeUp THEN {500, 0}
    ELSE IF LicenseByKey(key) = None THEN {204, 404}
    ELSE {204}

\* supabase_disable_license_row: r.status_code in (200, 204)
supabase_disable_license_row(status_code) == status_code \in {200, 204}

\* POST /admin/kill_license, main.py: whatever is not 200/204 is a 404
admin_kill_license(token, key) ==
    /\ impl = "rest"
    /\ Delivered
    /\ \E status_code \in PatchStatuses(key) :
        IF ~verify_admin(token) THEN
            /\ adminResp' = AdminResponse("kill", key, 401, "Unauthorized")
            /\ UNCHANGED licenses
        ELSE
            /\ licenses' = IF storeUp THEN Disable(key) ELSE licenses
            /\ adminResp' =
                  IF status_code = 0
                  THEN AdminResponse("kill", key, 500, "Internal Server Error")
                  ELSE IF supabase_disable_license_row(status_code)
                  THEN AdminResponse("kill", key, 200, "ok")
                  ELSE AdminResponse("kill", key, 404,
                                     "License not found or could not disable")
    /\ UNCHANGED << config, tok, listing, silent, env, activations, pc, locals, resp >>

\* a faulty entry: one whose count query has no filter on license_id
Listed_unfiltered(row) ==
    [key |-> row.key, owner |-> row.owner, plan |-> row.plan,
     expires_at |-> row.expires_at, active |-> row.active,
     activations |->
        IF impl = "orm"
        THEN <<Len(activations)>>
        ELSE [j \in 1..Len(activations) |->
                [device_id |-> activations[j].device_id,
                 last_seen |-> activations[j].last_seen]]]

\* the entry of a license in the answer of list_licenses: the activations
\* are counted by app/routes/admin.py and listed by main.py
Listed(row) ==
    [key |-> row.key, owner |-> row.owner, plan |-> row.plan,
     expires_at |-> row.expires_at, active |-> row.active,
     activations |->
        IF impl = "orm"
        THEN <<Cardinality(ActivationsOf(row.id))>>
        ELSE [j \in 1..Cardinality(ActivationsOf(row.id)) |->
                LET a == activations[
                           CHOOSE i \in ActivationsOf(row.id) :
                              Cardinality({k \in ActivationsOf(row.id) : k <= i}) = j]
                IN  [device_id |-> a.device_id, last_seen |-> a.last_seen]]]

\* the list_licenses call that has read these licenses and made no entry yet
Listing(items) == <<[items |-> items, out |-> <<>>]>>

\* GET /admin/list_licenses, app/routes/admin.py, lines 72-73: verify_admin
\* and db.query(License).all(); without licenses the loop is empty
list_licenses(token) ==
    /\ impl = "orm"
    /\ Delivered
    /\ listing = None
    /\ IF ~verify_admin(token) THEN
           /\ adminResp' = AdminResponse("list", None, 401, "Unauthorized")
           /\ UNCHANGED listing
       ELSE IF ~storeUp THEN
           /\ adminResp' = AdminResponse("list", None, 500, "store error")
           /\ UNCHANGED listing
       ELSE IF licenses = <<>> THEN
           /\ adminResp' = AdminResponse("list", None, 200, <<>>)
           /\ UNCHANGED listing
       ELSE
           /\ listing' = Listing(licenses)
           /\ UNCHANGED adminResp
    /\ UNCHANGED << config, tok, silent, env, store, pc, locals, resp >>

\* lines 75-86, one turn of the loop: the count query of the next license
\* and its entry; after the last one the answer
list_licenses_count ==
    /\ impl = "orm"
    /\ Delivered
    /\ listing # None
    /\ LET out == Append(listing[1].out,
                         Listed(listing[1].items[Len(listing[1].out) + 1]))
       IN  IF ~storeUp THEN
               /\ adminResp' = AdminResponse("list", None, 500, "store error")
               /\ listing' = None
           ELSE IF Len(out) = Len(listing[1].items) THEN
               /\ adminResp' = AdminResponse("list", None, 200, out)
               /\ listing' = None
           ELSE
               /\ listing' = <<[listing[1] EXCEPT !.out = out]>>
               /\ UNCHANGED adminResp
    /\ UNCHANGED << config, tok, silent, env, store, pc, locals, resp >>

\* GET /admin/list_licenses, main.py, lines 236-237: verify_admin and
\* supabase_list_licenses()
admin_list(token) ==
    /\ impl = "rest"
    /\ Delivered
    /\ listing = None
    /\ IF ~verify_admin(token) THEN
           /\ adminResp' = AdminResponse("list", None, 401, "Unauthorized")
           /\ UNCHANGED listing
       ELSE IF ~storeUp THEN
           /\ adminResp' = AdminResponse("list", None, 500, "Supabase error listing")
           /\ UNCHANGED listing
       ELSE IF licenses = <<>> THEN
           /\ adminResp' = AdminResponse("list", None, 200, <<>>)
           /\ UNCHANGED listing
       ELSE
           /\ listing' = Listing(licenses)
           /\ UNCHANGED adminResp
    /\ UNCHANGED << config, tok, silent, env, store, pc, locals, resp >>

\* lines 240-250, one turn of the loop: supabase_get_activations_for_license
\* of the next license and its entry; after the last one the answer
admin_list_activations ==
    /\ impl = "rest"
    /\ Delivered
    /\ listing # None
    /\ LET out == Append(listing[1].out,
                         Listed(listing[1].items[Len(listing[1].out) + 1]))
       IN  IF ~storeUp THEN
               /\ adminResp' = AdminResponse("list", None, 500,
                                             "Supabase error activations")
               /\ listing' = None
           ELSE IF Len(out) = Len(listing[1].items) THEN
               /\ adminResp' = AdminResponse("list", None, 200, out)
               /\ listing' = None
           ELSE
               /\ listing' = <<[listing[1] EXCEPT !.out = out]>>
               /\ UNCHANGED adminResp
    /\ UNCHANGED << config, tok, silent, env, store, pc, locals, resp >>

\* the admin client has read its response
AdminReturn ==
    /\ adminResp # None
    /\ adminResp' = None
    /\ UNCHANGED << config, tok, listing, silent, env, store, pc, locals, resp >>

----------------------------------------------------------------------------
(* The store's availability *)

\* the store stops answering (connection lost, timeout)
StoreFails ==
    /\ Delivered
    /\ storeUp
    /\ storeUp' = FALSE
    /\ UNCHANGED << config, tok, listing, silent, now, store, pc, locals, resp, adminResp >>

\* the store answers again
StoreRecovers ==
    /\ Delivered
    /\ ~storeUp
    /\ storeUp' = TRUE
    /\ UNCHANGED << config, tok, listing, silent, now, store, pc, locals, resp, adminResp >>

----------------------------------------------------------------------------
Next ==
    \/ Tick
    \/ \E w \in Workers, key \in LicenseKeyInputs, device_id \in DeviceIds :
          \/ activate_license_lookup(w, key, device_id)
          \/ api_check_lookup(w, key, device_id)
    \/ \E w \in Workers :
          \/ activate_license_find(w)
          \/ activate_license_touch(w)
          \/ activate_license_count(w)
          \/ activate_license_insert(w)
          \/ api_check_fetch(w)
          \/ api_check_touch(w)
          \/ api_check_insert(w)
          \/ Return(w)
    \/ \E token \in AdminTokenInputs, duration_plan \in DurationPlans,
          max_activations \in MaxActivationInputs :
          \/ create_license(token, duration_plan, max_activations)
          \/ admin_create_license(token, duration_plan, max_activations)
    \/ \E token \in AdminTokenInputs, key \in LicenseKeyInputs :
          \/ kill_license(token, key)
          \/ admin_kill_license(token, key)
    \/ AdminReturn
    \/ StoreFails
    \/ StoreRecovers

Spec == Init /\ [][Next]_vars

----------------------------------------------------------------------------
(* The token codec on its own: a client obtains a token, the token is       *)
(* altered or made up, and it is verified.                                  *)

IssueDays == {0, 1, MaxNow}
CodecDeviceIds == DeviceIds \cup {<<TILDE>>}          \* and the device "~"
\* the values a byte is changed to: NUL, "0", "A", "B", "|", "~", 0xFF
TamperBytes == {0, 48, 65, 66, PIPE, TILDE, 255}

\* strings that are no token: the empty string, characters outside the
\* base64 alphabet, a lone data character, missing padding, bytes without
\* separator, bytes with separator and a wrong or empty signature
MalformedTokens ==
    { <<>>, <<33, 42>>, <<65>>, <<65, 65>>, <<65, 65, 65>>, <<65, 61, 61, 61>>,
      urlsafe_b64encode(<<75, 49, PIPE, 65>>),
      urlsafe_b64encode(<<75, 49, TILDE>>),
      urlsafe_b64encode(<<TILDE>>),
      urlsafe_b64encode(<<75, 49, TILDE, 0, 0>>),
      urlsafe_b64encode(<<75, 49, TILDE, 65, 65, 65>>) }

CodecInit ==
    /\ impl = "orm"
    /\ secret \in Secrets
    /\ aware = FALSE
    /\ now = 0
    /\ licenses = <<>>
    /\ activations = <<>>
    /\ pc = [w \in Workers |-> "idle"]
    /\ req = [w \in Workers |-> [license_key |-> <<>>, device_id |-> <<>>]]
    /\ lic = [w \in Workers |-> None]
    /\ existing = [w \in Workers |-> 0]
    /\ resp = [w \in Workers |-> None]
    /\ adminResp = None
    /\ listing = None
    /\ silent = FALSE
    /\ tok = NoToken
    /\ storeUp = TRUE

server == << config, env, store, pc, locals, resp, adminResp, listing, silent >>

\* sign_activation(license_key, device_id) at day t
Sign(key, device_id, t) ==
    /\ tok.origin = "none"
    /\ tok' = Token(<<payload_of(key, device_id, timestamp(t))>>,
                    <<raw_of(secret, key, device_id, timestamp(t))>>,
                    sign_activation(secret, key, device_id, timestamp(t)),
                    "signed")
    /\ UNCHANGED server

\* one byte of the decoded token is changed to another value
Tamper(i, b) ==
    /\ tok.origin = "signed"
    /\ i <= Len(tok.raw[1])
    /\ b # tok.raw[1][i]
    /\ LET raw == [tok.raw[1] EXCEPT ![i] = b]
       IN  tok' = Token(tok.payload, <<raw>>, urlsafe_b64encode(raw), "tampered")
    /\ UNCHANGED server

\* the token is cut short
Truncate(n) ==
    /\ tok.origin = "signed"
    /\ tok' = Token(tok.payload, None, SubSeq(tok.token, 1, n), "truncated")
    /\ UNCHANGED server

\* the client sends something that never was a token
Forge(token) ==
    /\ tok.origin = "none"
    /\ tok' = Token(None, None, token, "malformed")
    /\ UNCHANGED server

\* verify_activation_token(token) is called
Verify ==
    /\ tok.origin # "none"
    /\ tok.result = None
    /\ tok' = [tok EXCEPT !.result = <<verify_activation_token(secret, tok.token)>>]
    /\ UNCHANGED server

\* a verify_token that looks the license up and rejects the tokens held
\* while a license is revoked
verify_token_checked ==
    /\ tok.origin # "none"
    /\ tok.http = None
    /\ tok' = [tok EXCEPT !.http =
          IF tok.token = <<>>
          THEN <<[status |-> 400, valid |-> FALSE, at |-> now]>>
          ELSE <<[status |-> 200,
                  valid |-> /\ verify_activation_token(secret, tok.token).valid
                            /\ \A i \in 1..Len(licenses) : licenses[i].active,
                  at |-> now]>>]
    /\ UNCHANGED server

\* POST /license/verify_token, app/routes/licenses.py lines 81-87
verify_token ==
    /\ tok.origin # "none"
    /\ tok.http = None
    /\ tok' = [tok EXCEPT !.http =
          IF tok.token = <<>>
          THEN <<[status |-> 400, valid |-> FALSE, at |-> now]>>
          ELSE <<[status |-> 200,
                  valid |-> verify_activation_token(secret, tok.token).valid,
                  at |-> now]>>]
    /\ UNCHANGED server

CodecNext ==
    \/ \E key \in KeyPool, device_id \in CodecDeviceIds, t \in IssueDays :
          Sign(key, device_id, t)
    \/ \E i \in 1..Len(tok.token), b \in TamperBytes : Tamper(i, b)
    \/ \E n \in 1..(Len(tok.token) - 1) : Truncate(n)
    \/ \E token \in MalformedTokens : Forge(token)
    \/ Verify
    \/ verify_token

SpecCodec == CodecInit /\ [][CodecNext]_vars

----------------------------------------------------------------------------
(* Properties of activation *)

\* worker w takes a request in this step: its lookup
Starts(w) == pc[w] = "idle" /\ pc'[w] # "idle"

\* the license row a request names when it starts (None when none)
Named(w) == LicenseByKey(req'[w].license_key)

\* the device ids clients supplied that hold a row of a license
DevicesOf(license_id) ==
    {activations[j].device_id : j \in ActivationsOf(license_id)} \ {unknown}

\* C1: for every license with max_activations = N > 0, the devices that hold
\* an activation row of it never number more than N, however the requests
\* of distinct devices interleave: with one place left, two concurrent
\* requests of two new devices are not both admitted.
C1_QuotaNeverExceeded ==
    \A i \in 1..Len(licenses) :
        licenses[i].max_activations > 0 =>
            Cardinality(DevicesOf(licenses[i].id)) <= licenses[i].max_activations

\* C2: in every reachable state a license has at most one activation row
\* per device_id value, the "unknown" of requests without device_id included.
C2_OneRowPerDevice ==
    \A i, j \in 1..Len(activations) :
        ( /\ activations[i].license_id = activations[j].license_id
          /\ activations[i].device_id = activations[j].device_id ) => i = j

\* the request worker w starts is one of a device that has a row under an
\* existing, active license that is not expired
Reactivates(w) ==
    /\ Named(w) # None
    /\ Named(w)[1].active
    /\ ~( Named(w)[1].expires_at # None /\ Named(w)[1].expires_at[1] < now )
    /\ req'[w].device_id # <<>>
    /\ \E j \in 1..Len(activations) :
          /\ activations[j].license_id = Named(w)[1].id
          /\ activations[j].device_id = req'[w].device_id

\* the steps of a request of worker w, while the store answers, when the
\* device has a row: past the screening, to the row, and to "OK" with a
\* token, the row's last_seen set and no row added
Reaffirmed(w) ==
    /\ (Starts(w) /\ Reactivates(w)) => pc'[w] \in {"find", "fetch"}
    /\ ( /\ pc[w] \in {"find", "fetch"}
         /\ pc'[w] # pc[w]
         /\ \E j \in 1..Len(activations) :
               /\ activations[j].license_id = lic[w][1].id
               /\ activations[j].device_id = req[w].device_id
               /\ req[w].device_id # <<>> )
       => ( /\ pc'[w] = "touch"
            /\ existing'[w] \in 1..Len(activations)
            /\ activations[existing'[w]].license_id = lic[w][1].id
            /\ activations[existing'[w]].device_id = req[w].device_id )
    /\ (pc[w] = "touch" /\ pc'[w] # pc[w])
       => ( /\ pc'[w] = "done"
            /\ resp'[w] # None
            /\ resp'[w][1].valid
            /\ resp'[w][1].message = "OK"
            /\ resp'[w][1].activation_token # None
            /\ Len(activations') = Len(activations)
            /\ activations'[existing[w]].last_seen = now
            /\ \A j \in 1..Len(activations) :
                  /\ activations'[j].license_id = activations[j].license_id
                  /\ activations'[j].device_id = activations[j].device_id )

\* C3: while the store answers, a request for an existing, active, unexpired
\* license whose device_id has an activation row always ends with valid=true,
\* message OK and a token, also with the count at or above max_activations;
\* it sets that row's last_seen and leaves the number of rows unchanged.
C3_Reactivation ==
    [][storeUp => \A w \in Workers : Reaffirmed(w)]_vars

\* a device was re-affirmed on a license whose quota is used up, on a later
\* day than the one its row was made on
C3_Witness ==
    \E w \in Workers :
        /\ pc[w] = "done"
        /\ resp[w][1].valid
        /\ resp[w][1].message = "OK"
        /\ lic[w][1].max_activations > 0
        /\ Cardinality(ActivationsOf(lic[w][1].id)) >= lic[w][1].max_activations
        /\ activations[existing[w]].last_seen = now
        /\ now > 0

\* C5: once a license is revoked, every request that starts on its key,
\* the store answering, ends at once with valid=false and "License
\* disabled" and changes no activation row, whether or not the license is
\* expired, has quota left, or has a row of the device: the disabled check
\* comes before the expiry check and the quota check.
C5_DisabledFirst ==
    [][\A w \in Workers :
         (Starts(w) /\ storeUp /\ Named(w) # None /\ ~Named(w)[1].active)
         => ( /\ pc'[w] = "done"
              /\ resp'[w] # None
              /\ ~resp'[w][1].valid
              /\ resp'[w][1].message = "License disabled"
              /\ resp'[w][1].activation_token = None
              /\ activations' = activations )]_vars

\* "License disabled" was the answer to a device that has a row under a
\* revoked license that is expired as well
C5_Witness ==
    \E w \in Workers :
        /\ pc[w] = "done"
        /\ resp[w][1].message = "License disabled"
        /\ LicenseByKey(req[w].license_key) # None
        /\ LET row == LicenseByKey(req[w].license_key)[1] IN
              /\ ~row.active
              /\ row.expires_at # None
              /\ row.expires_at[1] < now
              /\ \E j \in 1..Len(activations) :
                    /\ activations[j].license_id = row.id
                    /\ activations[j].device_id = req[w].device_id

\* C6: for an existing, active license a request, the store answering, gets
\* "License expired" (valid=false, no row added or changed) if and only if
\* expires_at is present and strictly before the current time.
C6_ExpiredIff ==
    [][\A w \in Workers :
         (Starts(w) /\ storeUp /\ Named(w) # None /\ Named(w)[1].active)
         => ( ( /\ pc'[w] = "done"
                /\ resp'[w] # None
                /\ ~resp'[w][1].valid
                /\ resp'[w][1].message = "License expired"
                /\ activations' = activations )
              <=> ( /\ Named(w)[1].expires_at # None
                    /\ Named(w)[1].expires_at[1] < now ) )]_vars

----------------------------------------------------------------------------
(* Properties of the admin operations *)

\* an admin call of this operation is answered in this step, and not with
\* the 401 of a caller without the admin token
Answered(op) ==
    /\ adminResp = None
    /\ adminResp' # None
    /\ adminResp'[1].op = op
    /\ adminResp'[1].status # 401

\* the licenses table got one row more and kept the rows it had
OneCreated ==
    /\ Len(licenses') = Len(licenses) + 1
    /\ \A i \in 1..Len(licenses) : licenses'[i] = licenses[i]

\* C9: createLicense with duration_plan lifetime, 1month, 3months or 6months
\* creates exactly one new active license whose expires_at is absent, now
\* + 30, 90 or 180 days; with any other duration_plan it reports a caller
\* error and creates no license.  (Calls made while the store answers.)
C9_CreateLicense ==
    [][(Answered("create") /\ storeUp) =>
         LET plan == adminResp'[1].arg
             created == licenses'[Len(licenses')]
         IN  IF plan \in {"lifetime", "1month", "3months", "6months"}
             THEN /\ OneCreated
                  /\ created.active
                  /\ plan = "lifetime" => created.expires_at = <<>>
                  /\ plan = "1month" => created.expires_at = <<now + 30>>
                  /\ plan = "3months" => created.expires_at = <<now + 90>>
                  /\ plan = "6months" => created.expires_at = <<now + 180>>
             ELSE /\ adminResp'[1].status \in 400..499
                  /\ licenses' = licenses]_vars

\* C10: revokeLicense on a key that matches no license reports not-found,
\* never ok, and changes no license; on an existing key it sets
\* active=false and reports ok; a store failure during the revoke is
\* reported as a store error, not as not-found.
C10_Revoke ==
    [][Answered("kill") =>
         LET key == adminResp'[1].arg
             status == adminResp'[1].status
         IN  IF ~storeUp
             THEN /\ status \notin {200, 404}
                  /\ licenses' = licenses
             ELSE IF LicenseByKey(key) = None
             THEN /\ status = 404
                  /\ licenses' = licenses
             ELSE /\ status = 200
                  /\ Len(licenses') = Len(licenses)
                  /\ \A i \in 1..Len(licenses) :
                        IF licenses[i].key = key
                        THEN ~licenses'[i].active
                        ELSE licenses'[i] = licenses[i]]_vars

----------------------------------------------------------------------------
(* Properties of the token codec *)

\* C4: every token sign_activation returns verifies, for every license key,
\* device id (also absent), issuance time and value of the digest bytes,
\* the digests that contain the separator "~" included.
C4_SignedVerifies ==
    (tok.origin = "signed" /\ tok.result # None) => tok.result[1].valid

\* the payload verify splits off the bytes raw: what precedes the last "~"
Leading(raw) ==
    LET seps == {p \in 1..Len(raw) : raw[p] = TILDE}
    IN  SubSeq(raw, 1, (CHOOSE p \in seps : \A q \in seps : q <= p) - 1)

\* two different messages have the same HMAC
Collide(a, b) == a # b /\ hmac_digest(secret, a) = hmac_digest(secret, b)

\* C7: a token made by sign_activation with one byte of its decoded bytes
\* changed to another value - a payload byte, the "~", a signature byte -
\* does not verify, HMAC collisions apart: when it does verify, the payload
\* it then carries and the payload that was signed are a collision.
C7_TamperDetected ==
    (tok.origin = "tampered" /\ tok.result # None /\ tok.result[1].valid)
    => ( /\ \E p \in 1..Len(tok.raw[1]) : tok.raw[1][p] = TILDE
         /\ Collide(Leading(tok.raw[1]), tok.payload[1]) )

\* a token that verified as signed was rejected after a change of one
\* payload byte that gives no collision
C7_Witness ==
    /\ tok.origin = "tampered"
    /\ tok.result # None
    /\ ~tok.result[1].valid
    /\ LET signed == tok.payload[1] \o <<TILDE>>
                     \o hmac_digest(secret, tok.payload[1])
           changed == SubSeq(tok.raw[1], 1, Len(tok.payload[1]))
       IN  /\ verify_activation_token(secret, urlsafe_b64encode(signed)).valid
           /\ changed # tok.payload[1]
           /\ ~Collide(changed, tok.payload[1])
           /\ SubSeq(tok.raw[1], Len(tok.payload[1]) + 1, Len(tok.raw[1]))
              = SubSeq(signed, Len(tok.payload[1]) + 1, Len(signed))

\* bytes are a payload, a "~" and the HMAC of the payload, for some way of
\* cutting them at a "~"
Authentic(raw) ==
    \E p \in 1..Len(raw) :
        /\ raw[p] = TILDE
        /\ SubSeq(raw, p + 1, Len(raw)) = hmac_digest(secret, SubSeq(raw, 1, p - 1))

\* a string that is no token: it is empty, or not base64, or its bytes hold
\* no "~", or their trailing part is not the HMAC of the leading part
Malformed(token) ==
    \/ token = <<>>
    \/ ~urlsafe_b64decode(token).ok
    \/ ~Authentic(urlsafe_b64decode(token).bytes)

\* C8: verify_activation_token returns false and never raises on malformed
\* input: the empty string, what is not base64, bytes without "~", bytes
\* whose trailing part is not the HMAC of the leading part; and so answers
\* the verify_token route.
C8_MalformedRejected ==
    /\ tok.result # None =>
          /\ tok.result[1].raised = ""
          /\ Malformed(tok.token) => ~tok.result[1].valid
    /\ tok.http # None =>
          /\ tok.http[1].status \in {200, 400}
          /\ Malformed(tok.token) => ~tok.http[1].valid

\* a string that decodes to bytes without a "~" was verified
C8_Witness ==
    /\ tok.origin \in {"malformed", "truncated"}
    /\ tok.result # None
    /\ ~tok.result[1].valid
    /\ urlsafe_b64decode(tok.token).ok
    /\ Len(urlsafe_b64decode(tok.token).bytes) > 0
    /\ \A p \in 1..Len(urlsafe_b64decode(tok.token).bytes) :
          urlsafe_b64decode(tok.token).bytes[p] # TILDE

----------------------------------------------------------------------------
(* The server with one client, which sends a request when it has the
   answer to the one before and keeps the token an activation gave it, and
   the admin, who has the admin token *)

\* the client keeps the activation_token of the response it has got
Keep(w) ==
    /\ pc[w] = "done"
    /\ tok.origin = "none"
    /\ resp[w][1].activation_token # None
    /\ tok' = Token(<<payload_of(req[w].license_key, req[w].device_id,
                                 timestamp(now))>>,
                    <<urlsafe_b64decode(resp[w][1].activation_token[1]).bytes>>,
                    resp[w][1].activation_token[1],
                    "issued")
    /\ UNCHANGED server

\* the requests of the one client
Client == 1

SeqNext ==
    \/ Tick
    \/ \E key \in LicenseKeyInputs, device_id \in DeviceIds :
          \/ activate_license_lookup(Client, key, device_id)
          \/ api_check_lookup(Client, key, device_id)
    \/ activate_license_find(Client)
    \/ activate_license_touch(Client)
    \/ activate_license_count(Client)
    \/ activate_license_insert(Client)
    \/ api_check_fetch(Client)
    \/ api_check_touch(Client)
    \/ api_check_insert(Client)
    \/ Keep(Client)
    \/ Return(Client)
    \/ impl = "orm" /\ Delivered /\ verify_token
    \/ \E duration_plan \in DurationPlans,
          max_activations \in MaxActivationInputs :
          \/ create_license(ADMIN_TOKEN, duration_plan, max_activations)
          \/ admin_create_license(ADMIN_TOKEN, duration_plan, max_activations)
    \/ \E key \in LicenseKeyInputs :
          \/ kill_license(ADMIN_TOKEN, key)
          \/ admin_kill_license(ADMIN_TOKEN, key)
    \/ list_licenses(ADMIN_TOKEN)
    \/ admin_list(ADMIN_TOKEN)
    \/ list_licenses_count
    \/ admin_list_activations
    \/ AdminReturn

SpecSeq == Init /\ [][SeqNext]_vars

----------------------------------------------------------------------------

(* The server with licenses of unlimited quota: the admin creates licenses
   without the parameter max_activations, with a negative one or with 0 *)

\* the parameter max_activations of a create_license request: absent, -1, 0
MaxActivationParams == {None, <<-1>>, <<0>>}

\* max_activations: int = 1 in the signature of the route: the value the
\* handler sees
max_activations_of(param) == IF param = None THEN 1 ELSE param[1]

QuotaNext ==
    \/ Tick
    \/ \E key \in LicenseKeyInputs, device_id \in DeviceIds :
          \/ activate_license_lookup(Client, key, device_id)
          \/ api_check_lookup(Client, key, device_id)
    \/ activate_license_find(Client)
    \/ activate_license_touch(Client)
    \/ activate_license_count(Client)
    \/ activate_license_insert(Client)
    \/ api_check_fetch(Client)
    \/ api_check_touch(Client)
    \/ api_check_insert(Client)
    \/ Return(Client)
    \/ \E duration_plan \in DurationPlans, param \in MaxActivationParams :
          \/ create_license(ADMIN_TOKEN, duration_plan, max_activations_of(param))
          \/ admin_create_license(ADMIN_TOKEN, duration_plan,
                                  max_activations_of(param))
    \/ AdminReturn

SpecQuota == Init /\ [][QuotaNext]_vars

----------------------------------------------------------------------------

(* The server with two licenses, and requests on both at a time *)

\* the keys of the two licenses: "K1", "K2"
PairKeys == {<<75, 49>>, <<75, 50>>}

\* two lifetime licenses have been created, each with some quota (without
\* an expiry, nothing depends on how the store returns datetimes)
PairInit ==
    /\ impl \in Impls
    /\ secret = ACTIVATION_SECRET
    /\ aware = FALSE
    /\ now = 0
    /\ \E m1 \in MaxActivationInputs, m2 \in MaxActivationInputs :
          licenses = << NewLicense(1, <<75, 49>>, "owner", "lifetime", None, m1),
                        NewLicense(2, <<75, 50>>, "owner", "lifetime", None, m2) >>
    /\ activations = <<>>
    /\ pc = [w \in Workers |-> "idle"]
    /\ req = [w \in Workers |-> [license_key |-> <<>>, device_id |-> <<>>]]
    /\ lic = [w \in Workers |-> None]
    /\ existing = [w \in Workers |-> 0]
    /\ resp = [w \in Workers |-> None]
    /\ adminResp = None
    /\ listing = None
    /\ silent = FALSE
    /\ tok = NoToken
    /\ storeUp = TRUE

PairNext ==
    \/ \E w \in Workers, key \in PairKeys, device_id \in DeviceIds :
          \/ activate_license_lookup(w, key, device_id)
          \/ api_check_lookup(w, key, device_id)
    \/ \E w \in Workers :
          \/ activate_license_find(w)
          \/ activate_license_touch(w)
          \/ activate_license_count(w)
          \/ activate_license_insert(w)
          \/ api_check_fetch(w)
          \/ api_check_touch(w)
          \/ api_check_insert(w)
          \/ Return(w)
    \/ \E key \in PairKeys :
          \/ kill_license(ADMIN_TOKEN, key)
          \/ admin_kill_license(ADMIN_TOKEN, key)
    \/ AdminReturn

SpecPair == PairInit /\ [][PairNext]_vars

----------------------------------------------------------------------------

(* The admin routes, called with the admin token, with another and with
   none, and a client whose requests fill the tables *)

AdminNext ==
    \/ \E key \in KeyPool, device_id \in DeviceIds \ {<<>>} :
          \/ activate_license_lookup(Client, key, device_id)
          \/ api_check_lookup(Client, key, device_id)
    \/ activate_license_find(Client)
    \/ activate_license_touch(Client)
    \/ activate_license_count(Client)
    \/ activate_license_insert(Client)
    \/ api_check_fetch(Client)
    \/ api_check_touch(Client)
    \/ api_check_insert(Client)
    \/ Return(Client)
    \/ \E token \in AdminTokenInputs, duration_plan \in DurationPlans,
          max_activations \in MaxActivationInputs :
          \/ create_license(token, duration_plan, max_activations)
          \/ admin_create_license(token, duration_plan, max_activations)
    \/ \E token \in AdminTokenInputs, key \in LicenseKeyInputs :
          \/ kill_license(token, key)
          \/ admin_kill_license(token, key)
    \/ \E token \in AdminTokenInputs :
          \/ list_licenses(token)
          \/ admin_list(token)
    \/ list_licenses_count
    \/ admin_list_activations
    \/ AdminReturn
    \/ StoreFails
    \/ StoreRecovers

SpecAdmin == Init /\ [][AdminNext]_vars

----------------------------------------------------------------------------

(* The server with two licenses, one of them expired, a client and the
   admin, who lists, and revokes, the licenses *)

\* a lifetime license of some quota and a license of one month without
\* quota were created on day 0; it is the day after the month
ListInit ==
    /\ impl \in Impls
    /\ secret = ACTIVATION_SECRET
    /\ aware = FALSE
    /\ now = DAYS_1MONTH + 1
    /\ \E m1 \in MaxActivationInputs :
          licenses = << NewLicense(1, <<75, 49>>, "owner", "lifetime", None, m1),
                        NewLicense(2, <<75, 50>>, "owner", "1month",
                                   expires_at_of("1month", 0), 0) >>
    /\ activations = <<>>
    /\ pc = [w \in Workers |-> "idle"]
    /\ req = [w \in Workers |-> [license_key |-> <<>>, device_id |-> <<>>]]
    /\ lic = [w \in Workers |-> None]
    /\ existing = [w \in Workers |-> 0]
    /\ resp = [w \in Workers |-> None]
    /\ adminResp = None
    /\ listing = None
    /\ silent = FALSE
    /\ tok = NoToken
    /\ storeUp = TRUE

ListNext ==
    \/ \E key \in PairKeys, device_id \in DeviceIds :
          \/ activate_license_lookup(Client, key, device_id)
          \/ api_check_lookup(Client, key, device_id)
    \/ activate_license_find(Client)
    \/ activate_license_touch(Client)
    \/ activate_license_count(Client)
    \/ activate_license_insert(Client)
    \/ api_check_fetch(Client)
    \/ api_check_touch(Client)
    \/ api_check_insert(Client)
    \/ Return(Client)
    \/ \E key \in PairKeys :
          \/ kill_license(ADMIN_TOKEN, key)
          \/ admin_kill_license(ADMIN_TOKEN, key)
    \/ list_licenses(ADMIN_TOKEN)
    \/ admin_list(ADMIN_TOKEN)
    \/ list_licenses_count
    \/ admin_list_activations
    \/ AdminReturn
    \/ StoreFails
    \/ StoreRecovers

SpecList == ListInit /\ [][ListNext]_vars

----------------------------------------------------------------------------

(* The server on a store that may stop answering, in the course of time *)

\* the store answers the calls, if only with an error
Answers == storeUp \/ ~silent

\* the store stops answering: it accepts the calls and sends nothing back
StoreHangs ==
    /\ Delivered
    /\ storeUp
    /\ storeUp' = FALSE
    /\ silent' = TRUE
    /\ UNCHANGED << config, tok, listing, now, store, pc, locals, resp, adminResp >>

\* the silent store answers again
StoreAnswers ==
    /\ Delivered
    /\ ~storeUp
    /\ silent
    /\ storeUp' = TRUE
    /\ silent' = FALSE
    /\ UNCHANGED << config, tok, listing, now, store, pc, locals, resp, adminResp >>

\* the next step of the request of worker w.  A call of the SQLAlchemy
\* session returns when the store has answered: create_engine, database.py
\* line 12, sets no timeout on connecting or on a statement.  The calls of
\* main.py have timeout=8 and end with an exception when nothing arrives.
ServerStep(w) ==
    \/ Answers /\ activate_license_find(w)
    \/ Answers /\ activate_license_touch(w)
    \/ Answers /\ activate_license_count(w)
    \/ Answers /\ activate_license_insert(w)
    \/ api_check_fetch(w)
    \/ api_check_touch(w)
    \/ api_check_insert(w)

LiveNext ==
    \/ \E w \in Workers, key \in PairKeys, device_id \in DeviceIds :
          \/ Answers /\ activate_license_lookup(w, key, device_id)
          \/ api_check_lookup(w, key, device_id)
    \/ \E w \in Workers : ServerStep(w)
    \/ \E w \in Workers : Return(w)
    \/ StoreFails
    \/ ~silent /\ StoreRecovers
    \/ StoreHangs
    \/ StoreAnswers

\* the handlers run on threads of their own, each goes on when its call
\* has returned; the clients read the responses
Fairness ==
    \A w \in Workers : SF_vars(ServerStep(w)) /\ WF_vars(Return(w))

SpecLive == PairInit /\ [][LiveNext]_vars /\ Fairness

----------------------------------------------------------------------------

(* Outcomes and effects of a request *)

\* the messages of the outcomes that are results and no errors
Negative ==
    {"License not found", "License disabled", "License expired",
     "Activation limit reached"}

\* C11: a request that ends in a domain-negative outcome (license not found,
\* disabled, expired, activation limit reached) returns a normal result
\* with valid=false and no token, no error, and has left the store as it
\* was: it wrote nothing in the step that ends it, and no step of a request
\* before its last one writes.
C11_NegativeNoEffect ==
    [][\A w \in Workers :
         /\ ( /\ pc[w] # "done"
              /\ pc'[w] = "done"
              /\ resp'[w][1].message \in Negative )
            => ( /\ resp'[w][1].status = 200
                 /\ ~resp'[w][1].valid
                 /\ resp'[w][1].activation_token = None
                 /\ licenses' = licenses
                 /\ activations' = activations )
         /\ (pc'[w] # pc[w] /\ pc'[w] \notin {"done", "idle"})
            => (licenses' = licenses /\ activations' = activations)]_vars

\* a request was rejected for the limit on a license that has rows
C11_Witness ==
    \E w \in Workers :
        /\ pc[w] = "done"
        /\ resp[w][1].message = "Activation limit reached"
        /\ lic[w] # None
        /\ \E j \in 1..Len(activations) :
              activations[j].license_id = lic[w][1].id

\* worker w makes a store call in this step, and the store fails it
\* (licenses.py answers a request without license_key before any call)
FailedCall(w) ==
    /\ ~storeUp
    /\ pc[w] # "done"
    /\ pc'[w] # pc[w]
    /\ ~(impl = "orm" /\ pc[w] = "idle" /\ req'[w].license_key = <<>>)

\* C12: when a store call of a request fails - the license lookup, the
\* activation lookup or count, the insert, the last_seen update - the
\* request ends in a store-failure error: it does not answer "License not
\* found", and it does not answer valid=true with a token while the insert
\* or the update was not persisted.
C12_StoreFailureSurfaced ==
    [][\A w \in Workers :
         FailedCall(w)
         => ( /\ pc'[w] = "done"
              /\ resp'[w][1].status >= 500
              /\ ~resp'[w][1].valid
              /\ resp'[w][1].activation_token = None
              /\ resp'[w][1].message # "License not found" )]_vars

----------------------------------------------------------------------------
(* The operations and the store *)

\* the bytes a token decodes to end, after their last "~", with the HMAC
\* under the secret of what precedes it
Genuine(token) ==
    LET d == urlsafe_b64decode(token)
    IN  /\ token # <<>>
        /\ d.ok
        /\ \E p \in 1..Len(d.bytes) : d.bytes[p] = TILDE
        /\ SubSeq(d.bytes, Len(Leading(d.bytes)) + 2, Len(d.bytes))
           = hmac_digest(secret, Leading(d.bytes))

\* C13: verifyToken reads and writes no store: a call leaves licenses and
\* activations as they are, and its answer is a function of the token and
\* the secret alone - valid exactly when the token's bytes end with the
\* HMAC of what precedes their last "~" - whatever has become of the
\* license: a token that was issued (with a digest free of "~") verifies
\* also after its license was revoked or has expired.
C13_VerifyTokenPure ==
    [][(tok.http = None /\ tok'.http # None) =>
          /\ licenses' = licenses
          /\ activations' = activations
          /\ tok'.http[1].valid <=> Genuine(tok.token)
          /\ ( /\ tok.origin = "issued"
               /\ \A p \in 1..DigestLen :
                     hmac_digest(secret, tok.payload[1])[p] # TILDE )
             => tok'.http[1].valid]_vars

\* a token an activation issued was verified, and found valid, on a day
\* its license had expired; the license is a revoked one as well
C13_Witness ==
    /\ tok.origin = "issued"
    /\ tok.http # None
    /\ tok.http[1].valid
    /\ \E i \in 1..Len(licenses) :
          /\ Expired(licenses[i], tok.http[1].at)
          /\ ~licenses[i].active

\* the request of worker w ends with this step
Ends(w) == pc[w] # "done" /\ pc'[w] = "done"

\* the request that ends is one of a device without a row on an existing,
\* active, unexpired license, and the store answers
NewOnUsable(w) ==
    /\ Ends(w)
    /\ storeUp
    /\ Named(w) # None
    /\ Named(w)[1].active
    /\ ~Expired(Named(w)[1], now)
    /\ ActivationsFor(Named(w)[1].id, req'[w].device_id) = {}

\* the step appends the row of the request of worker w and nothing else
RowCreated(w) ==
    /\ Len(activations') = Len(activations) + 1
    /\ SubSeq(activations', 1, Len(activations)) = activations
    /\ activations'[Len(activations')].license_id = Named(w)[1].id
    /\ activations'[Len(activations')].device_id =
          IF req'[w].device_id = <<>> THEN unknown ELSE req'[w].device_id

\* C14: with the requests made one at a time, the request of a device id
\* without a row on an existing, active, unexpired license is admitted - a
\* row is created, valid=true, message Activated - exactly when
\* max_activations is 0 or the license has fewer rows than that, and is
\* answered 'Activation limit reached' otherwise.
C14_SequentialQuota ==
    [][(NewOnUsable(Client) /\ req'[Client].device_id # <<>>) =>
          LET row == Named(Client)[1]
              act_count == Cardinality(ActivationsOf(row.id))
              r == resp'[Client][1]
          IN  IF row.max_activations = 0 \/ act_count < row.max_activations
              THEN /\ r.valid
                   /\ r.message = "Activated"
                   /\ RowCreated(Client)
              ELSE /\ r = LimitResp
                   /\ activations' = activations]_vars

\* the license with this id
LicenseById(id) == licenses[CHOOSE i \in 1..Len(licenses) : licenses[i].id = id]

\* C15: no Activation row is created for a license whose revocation has
\* committed: a step that adds a row adds it to a license that is active
\* in the store at that step, also when the request read the license
\* before the revocation.
C15_NoRowAfterRevocation ==
    [][\A j \in (Len(activations) + 1)..Len(activations') :
          LicenseById(activations'[j].license_id).active]_vars

\* the fields of a license no operation writes after its creation
Fixed(row) ==
    << row.id, row.key, row.owner, row.plan, row.expires_at, row.max_activations >>

\* C16: whatever the operation - activate, verify_token, create_license,
\* kill_license, list_licenses - a license once created stays in the store
\* with its key, owner, plan, expires_at and max_activations; its active
\* flag changes from true to false only; an activation row stays in the
\* store under its license and device, so no license's activation count
\* decreases.
C16_LicensesOnlyRevoked ==
    [][ /\ Len(licenses') >= Len(licenses)
        /\ \A i \in 1..Len(licenses) :
              /\ Fixed(licenses'[i]) = Fixed(licenses[i])
              /\ licenses'[i].active => licenses[i].active
        /\ Len(activations') >= Len(activations)
        /\ \A j \in 1..Len(activations) :
              /\ activations'[j].license_id = activations[j].license_id
              /\ activations'[j].device_id = activations[j].device_id
        /\ \A i \in 1..Len(licenses) :
              Cardinality(ActivationsOf(licenses[i].id)')
              >= Cardinality(ActivationsOf(licenses[i].id)) ]_vars

\* a revocation is answered ok: the license, which has an activation
\* row, is inactive; a token was verified on a day after the first
C16_Witness ==
    /\ adminResp # None
    /\ adminResp[1].op = "kill"
    /\ adminResp[1].status = 200
    /\ tok.http # None
    /\ \E i \in 1..Len(licenses) :
          /\ licenses[i].key = adminResp[1].arg
          /\ ~licenses[i].active
          /\ ActivationsOf(licenses[i].id) # {}
          /\ tok.http[1].at > 0

\* a license is created by a request with this parameter max_activations
CreatedWith(param) ==
    /\ Len(licenses') = Len(licenses) + 1
    /\ \E duration_plan \in DurationPlans :
          \/ create_license(ADMIN_TOKEN, duration_plan, max_activations_of(param))
          \/ admin_create_license(ADMIN_TOKEN, duration_plan,
                                  max_activations_of(param))

\* C17: a license with max_activations = 0 has no limit: the request of a
\* new device on it - existing, active, unexpired - is admitted whatever
\* the number of its rows, and never answered 'Activation limit reached';
\* a license created with a negative max_activations or without the
\* parameter is created and has no limit either.
C17_ZeroUnlimited ==
    [][ /\ \A param \in MaxActivationParams :
              CreatedWith(param) =>
                 ~LimitReached(licenses'[Len(licenses')], MaxActivations)
        /\ ( /\ NewOnUsable(Client)
             /\ ~LimitReached(Named(Client)[1], MaxActivations) )
           => ( /\ resp'[Client][1].valid
                /\ resp'[Client][1].message = "Activated"
                /\ RowCreated(Client) ) ]_vars

\* the rows of a license, by their license_id
Own(id) == {j \in 1..Len(activations) : activations[j].license_id = id}

\* C18: a step of an activate request on license X leaves every License
\* as it is, changes no Activation row of another license and adds rows
\* to X only; and what it answers depends on X alone: 'Activation limit
\* reached' only when X's own rows fill X's quota, the re-affirmation OK
\* only when the device has a row under X, and it goes on to the insert
\* only when X's own rows leave room - whatever rows other licenses have.
C18_OtherLicensesUntouched ==
    [][\A w \in Workers :
          (pc[w] # "done" /\ pc'[w] # pc[w] /\ Named(w) # None) =>
             LET X == Named(w)[1] IN
             /\ licenses' = licenses
             /\ \A j \in 1..Len(activations) :
                   activations[j].license_id # X.id
                   => activations'[j] = activations[j]
             /\ \A j \in (Len(activations) + 1)..Len(activations') :
                   activations'[j].license_id = X.id
             /\ \A Y \in {licenses[i].id : i \in 1..Len(licenses)} \ {X.id} :
                   Cardinality(Own(Y)') = Cardinality(Own(Y))
             /\ (pc'[w] = "done" /\ resp'[w][1] = LimitResp)
                => LimitReached(X, Cardinality(Own(X.id)))
             /\ (pc'[w] = "done" /\ resp'[w][1].message = "OK")
                => \E j \in Own(X.id) :
                      activations[j].device_id = req'[w].device_id
             /\ (pc[w] \in {"count", "fetch"} /\ pc'[w] = "insert")
                => ~LimitReached(X, Cardinality(Own(X.id)))]_vars

\* a device is Activated on a license of quota 1 while the other license
\* has a row, of the same device
C18_Witness ==
    \E w \in Workers :
        /\ pc[w] = "done"
        /\ resp[w][1].message = "Activated"
        /\ lic[w][1].max_activations = 1
        /\ Cardinality(Own(lic[w][1].id)) = 1
        /\ \E j \in 1..Len(activations) :
              /\ activations[j].license_id # lic[w][1].id
              /\ activations[j].device_id = req[w].device_id

\* C19: a request without device_id (absent or empty) is never answered
\* as a re-affirmation: it never reaches the last_seen update, and on an
\* existing, active, unexpired license it is a new activation each time:
\* refused with 'Activation limit reached' when the quota is used up, and
\* otherwise Activated with a new row of device_id "unknown" and a token
\* signed over an empty device field - so each such request takes a slot.
C19_NoDeviceIsNew ==
    [][req'[Client].device_id = <<>> =>
          /\ pc'[Client] # "touch"
          /\ (pc'[Client] = "done" /\ resp'[Client] # None)
             => resp'[Client][1].message # "OK"
          /\ NewOnUsable(Client) =>
                LET row == Named(Client)[1]
                    act_count == Cardinality(ActivationsOf(row.id))
                IN  IF LimitReached(row, act_count)
                    THEN /\ resp'[Client][1] = LimitResp
                         /\ activations' = activations
                    ELSE /\ resp'[Client][1]
                            = Granted("Activated", row.key, <<>>, now)
                         /\ RowCreated(Client)
                         /\ activations'[Len(activations')].device_id = unknown
                         /\ Cardinality({j \in 1..Len(activations') :
                               activations'[j].license_id = row.id})
                            = act_count + 1]_vars

\* an admin operation is called with this token
AdminCall(token) ==
    \/ \E duration_plan \in DurationPlans, max_activations \in MaxActivationInputs :
          \/ create_license(token, duration_plan, max_activations)
          \/ admin_create_license(token, duration_plan, max_activations)
    \/ \E key \in LicenseKeyInputs :
          \/ kill_license(token, key)
          \/ admin_kill_license(token, key)
    \/ list_licenses(token)
    \/ admin_list(token)

\* C20: create_license, kill_license and list_licenses called without the
\* admin token or with one that is not the configured token answer
\* 401 Unauthorized and leave the store as it is: no license is created,
\* no active flag changed.
C20_Unauthorized ==
    [][\A token \in AdminTokenInputs \ {ADMIN_TOKEN} :
          AdminCall(token) =>
             /\ adminResp'[1].status = 401
             /\ licenses' = licenses
             /\ activations' = activations]_vars

\* the revocation of an active license was refused for its token: the
\* license is active still
C20_Witness ==
    /\ adminResp # None
    /\ adminResp[1].op = "kill"
    /\ adminResp[1].status = 401
    /\ LicenseByKey(adminResp[1].arg) # None
    /\ LicenseByKey(adminResp[1].arg)[1].active

----------------------------------------------------------------------------
(* The list of licenses *)

\* the number of activations an entry of the list gives
Counted(entry) ==
    IF impl = "orm" THEN entry.activations[1] ELSE Len(entry.activations)

\* the entry gives this license with the activation rows it has now
Exact(entry, row) ==
    /\ entry.key = row.key
    /\ entry.owner = row.owner
    /\ entry.plan = row.plan
    /\ entry.expires_at = row.expires_at
    /\ Counted(entry) = Cardinality(Own(row.id))
    /\ impl = "rest" =>
          \A i \in Own(row.id) :
             \E j \in 1..Len(entry.activations) :
                /\ entry.activations[j].device_id = activations[i].device_id
                /\ entry.activations[j].last_seen = activations[i].last_seen

\* C21: list_licenses changes nothing in the store and answers with one
\* entry for every license the store holds when it is called, the revoked
\* and the expired ones too, in their order; the entry of a license gives
\* its activations - their number, or their list - as the rows of that
\* license are at the moment the call reads them, and no more than the
\* license has when the call answers.
C21_ListLicenses ==
    [][ /\ (listing' # listing \/ (adminResp' # adminResp /\ adminResp' # None
                                   /\ adminResp'[1].op = "list"))
           => (licenses' = licenses /\ activations' = activations)
        /\ (listing = None /\ listing' # None)
           => (listing'[1].items = licenses /\ listing'[1].out = <<>>)
        /\ (listing = None /\ adminResp' # adminResp /\ adminResp' # None
            /\ adminResp'[1].op = "list" /\ adminResp'[1].status = 200)
           => (licenses = <<>> /\ adminResp'[1].detail = <<>>)
        /\ listing # None =>
              LET done == listing[1].out
                  made == IF listing' # None THEN listing'[1].out
                          ELSE IF adminResp'[1].status = 200
                          THEN adminResp'[1].detail
                          ELSE done
              IN  /\ listing' # None => listing'[1].items = listing[1].items
                  /\ Len(done) < Len(listing[1].items)
                  /\ \A k \in 1..Len(done) :
                        /\ made[k] = done[k]
                        /\ done[k].key = licenses[k].key
                        /\ Counted(done[k]) <= Cardinality(Own(licenses[k].id))
                  /\ Len(made) > Len(done) =>
                        /\ Len(made) = Len(done) + 1
                        /\ Exact(made[Len(made)], licenses[Len(made)])
                        /\ made[Len(made)].active
                           = listing[1].items[Len(made)].active
                  /\ (listing' = None /\ adminResp'[1].status = 200)
                     => Len(made) = Len(listing[1].items) ]_vars

\* the list is answered with the entries of a revoked license that has an
\* activation and of an expired license
C21_Witness ==
    /\ adminResp # None
    /\ adminResp[1].op = "list"
    /\ adminResp[1].status = 200
    /\ Len(adminResp[1].detail) = 2
    /\ \E k \in 1..2 :
          /\ ~adminResp[1].detail[k].active
          /\ Counted(adminResp[1].detail[k]) > 0
    /\ \E k \in 1..2 :
          /\ adminResp[1].detail[k].expires_at # None
          /\ adminResp[1].detail[k].expires_at[1] < now

----------------------------------------------------------------------------
(* Requests end *)

\* C22: every activate request ends with a response - a result or a
\* store-failure error - whatever the store does, a store that stops
\* answering included: every store call ends after a bounded time.
C22_EveryRequestEnds ==
    \A w \in Workers : (pc[w] \notin {"idle", "done"}) ~> (pc[w] = "done")

====
